---- MODULE Spec2Model ----
(***************************************************************************)
(* Collapse OS shell emulator (tools/emul/shell/shell.c): the I/O port bus *)
(* with its block-device address latch, the memory callbacks and the       *)
(* execution loop of main().  The Z80 core (libz80) is external: a step of *)
(* it is modelled as an arbitrary sequence of memory and I/O callbacks     *)
(* that may end with the CPU halted.                                       *)
(***************************************************************************)
EXTENDS Integers, Sequences, FiniteSets, TLC

\* ------------------------------------------------------------ constants
MAX_FSDEV_SIZE == 131072
RAMSTART == 16384
STDIO_PORT == 0
FS_DATA_PORT == 1
FS_ADDR_PORT == 2
\* getchar()'s end-of-file value
EOF == -1
\* CTRL+D, the byte the guest writes to the console to stop the session
EOT == 4

\* --------------------------------------------------------------- bounds
\* callbacks (io_read, io_write, mem_read, mem_write) invoked in a session
MaxCalls == 2
\* callbacks invoked in a session that uses the block-device ports only
MaxBusCalls == 4
\* callbacks invoked in a session that mixes protocol violations with the
\* two ways of ending it
MaxStopCalls == 5
\* callbacks invoked in a session that latches addresses over and over
MaxLatchCalls == 8

\* --------------------------------------------------------------- inputs
\* byte values the guest passes: the address bytes of 0, capacity-1,
\* capacity and beyond, CTRL+D and 0xFF
ByteVals == {0, 1, 2, 4, 255}
\* 16-bit port numbers: the three ports, an invalid one, and 0x0102 whose
\* low byte is the address port
Ports == {0, 1, 2, 3, 258}
\* the block-device ports
BusPorts == {1, 2}
\* memory addresses on both sides of RAMSTART
MemAddrs == {16383, 16384}
\* contents of the standard input: nothing, one byte, and two bytes the
\* second of which is 0xFF
Inputs == { <<>>, <<65>>, <<65, 255>> }
\* outputs of cfspack: a length and the non-zero bytes (offset -> byte)
Images ==
    { [len |-> 0, data |-> <<>>],
      [len |-> 5, data |-> (1 :> 171) @@ (4 :> 7)],
      [len |-> MAX_FSDEV_SIZE - 1, data |-> (0 :> 9) @@ (MAX_FSDEV_SIZE - 2 :> 33)],
      [len |-> MAX_FSDEV_SIZE, data |-> (MAX_FSDEV_SIZE - 1 :> 33)],
      [len |-> MAX_FSDEV_SIZE + 1, data |-> (MAX_FSDEV_SIZE :> 33)] }
\* kernel images (kernel-bin.h): the bytes copied to the bottom of memory
Kernels == { <<243, 0, 195>> }

\* -------------------------------------------------------------- helpers
\* A zero-initialised C array is kept as the function of its non-zero
\* bytes: Peek reads an element, Poke stores one.
Peek(arr, i) == IF i \in DOMAIN arr THEN arr[i] ELSE 0

Poke(arr, i, v) ==
    IF v = 0
    THEN [j \in DOMAIN arr \ {i} |-> arr[j]]
    ELSE [j \in DOMAIN arr \cup {i} |-> IF j = i THEN v ELSE arr[j]]

RECURSIVE BitOr(_, _)
BitOr(a, b) ==
    IF a = 0 THEN b
    ELSE IF b = 0 THEN a
    ELSE (IF a % 2 = 1 \/ b % 2 = 1 THEN 1 ELSE 0) + 2 * BitOr(a \div 2, b \div 2)

RECURSIVE BitAnd(_, _)
BitAnd(a, b) ==
    IF a = 0 \/ b = 0 THEN 0
    ELSE (IF a % 2 = 1 /\ b % 2 = 1 THEN 1 ELSE 0) + 2 * BitAnd(a \div 2, b \div 2)

\* val << n for a byte val and n <= 16: below 2^24, so that neither the int
\* of the expression nor the uint32_t it is stored in wraps
Shl(val, n) == val * (2 ^ n)

\* (uint8_t)c
U8(c) == c % 256

\* printf's texts on the standard output
MsgInit ==
    <<73, 110, 105, 116, 105, 97, 108, 105, 122, 105, 110, 103, 32, 102, 105,
      108, 101, 115, 121, 115, 116, 101, 109, 10>>
MsgBlank ==
    <<67, 97, 110, 39, 116, 32, 105, 110, 105, 116, 105, 97, 108, 105, 122,
      101, 32, 102, 105, 108, 101, 115, 121, 115, 116, 101, 109, 46, 32, 76,
      101, 97, 118, 105, 110, 103, 32, 98, 108, 97, 110, 107, 46, 10>>
MsgTerm ==
    <<67, 97, 110, 39, 116, 32, 115, 101, 116, 117, 112, 32, 116, 101, 114,
      109, 105, 110, 97, 108, 46, 10>>
MsgDone == <<68, 111, 110, 101, 33, 10>>

\* ---------------------------------------------------------------- state
VARIABLES
    pc,              \* where main() is: "fs", "term", "loop", "exec", "done", "fail"
    mem,             \* mem[0x10000]
    fsdev,           \* fsdev[MAX_FSDEV_SIZE]
    fsdev_ptr,       \* the 24-bit cursor
    fsdev_addr_lvl,  \* 0 idle, 1 received MSB, 2 received middle byte
    running,         \* the run flag
    halted,          \* cpu.halted
    stdin,           \* bytes not yet read from the standard input
    stdout,          \* bytes written to the standard output
    stderr,          \* diagnostics written to the standard error
    ret,             \* value the last reading callback returned to the CPU
    latched,         \* history: bytes written to the address port in the current sequence
    conlog,          \* history: bytes the guest wrote to the console port
    ncalls,          \* history: callbacks invoked so far
    naddr,           \* history: writes to the address port so far
    prev,            \* history: the last completed address sequence, its cursor and
                     \* what the data port read then; emptied by a stored data write
    written,         \* history: offset -> byte of the data-port writes that were stored
    reads,           \* history: what each data-port read returned, with the number
                     \* of address-port writes made before it
    cmds             \* commands main() passed to popen()

vars == <<pc, mem, fsdev, fsdev_ptr, fsdev_addr_lvl, running, halted,
          stdin, stdout, stderr, ret, latched, conlog, ncalls, naddr,
          prev, written, reads, cmds>>

Init ==
    /\ pc = "fs"
    /\ mem = <<>>
    /\ fsdev = <<>>
    /\ fsdev_ptr = 0
    /\ fsdev_addr_lvl = 0
    /\ running = 0
    /\ halted = 0
    /\ stdin \in Inputs
    /\ stdout = <<>>
    /\ stderr = <<>>
    /\ ret = 0
    /\ latched = <<>>
    /\ conlog = <<>>
    /\ ncalls = 0
    /\ naddr = 0
    /\ prev = <<>>
    /\ written = <<>>
    /\ reads = <<>>
    /\ cmds = <<>>

\* ------------------------------------------------- session bootstrap
Min(a, b) == IF a < b THEN a ELSE b

\* the read loop of main(): fsdev[i++] = c while c != EOF and i < MAX_FSDEV_SIZE
LoadCount(img) == Min(img.len, MAX_FSDEV_SIZE)

LoadImage(img) ==
    [o \in {x \in DOMAIN img.data : x < LoadCount(img)} |-> img.data[o]]

\* the check made after the read loop
ImageTooLarge(i) == i = MAX_FSDEV_SIZE

\* popen("../cfspack/cfspack cfsin", "r"): the tool run and the directory
\* it is given
PackCommand == [tool |-> "../cfspack/cfspack", dir |-> "cfsin"]

\* popen() gave no stream: the device is left blank
FsBlank ==
    /\ pc = "fs"
    /\ cmds' = Append(cmds, PackCommand)
    /\ stdout' = stdout \o MsgBlank
    /\ pc' = "term"
    /\ UNCHANGED <<mem, fsdev, fsdev_ptr, fsdev_addr_lvl, running, halted,
                   stdin, stderr, ret, latched, conlog, ncalls,
                   naddr, prev, written, reads>>

\* popen() gave cfspack's output: it is read into fsdev
FsLoad(img) ==
    /\ pc = "fs"
    /\ stdout' = stdout \o MsgInit
    /\ fsdev' = LoadImage(img)
    /\ IF ImageTooLarge(LoadCount(img))
       THEN /\ stderr' = Append(stderr, <<"Filesytem image too large.\n">>)
            /\ pc' = "fail"
       ELSE /\ stderr' = stderr
            /\ pc' = "term"
    /\ cmds' = Append(cmds, PackCommand)
    /\ UNCHANGED <<mem, fsdev_ptr, fsdev_addr_lvl, running, halted,
                   stdin, ret, latched, conlog, ncalls,
                   naddr, prev, written, reads>>

\* tcgetattr() failed: main() returns 1
TermFail ==
    /\ pc = "term"
    /\ stdout' = stdout \o MsgTerm
    /\ pc' = "fail"
    /\ UNCHANGED <<mem, fsdev, fsdev_ptr, fsdev_addr_lvl, running, halted,
                   stdin, stderr, ret, latched, conlog, ncalls,
                   naddr, prev, written, reads, cmds>>

\* the terminal is set up, the kernel copied, the CPU reset
Boot(kernel) ==
    /\ pc = "term"
    /\ mem' = [a \in {x - 1 : x \in {y \in DOMAIN kernel : kernel[y] # 0}} |-> kernel[a + 1]]
    /\ running' = 1
    /\ halted' = 0
    /\ pc' = "loop"
    /\ UNCHANGED <<fsdev, fsdev_ptr, fsdev_addr_lvl, stdin, stdout, stderr,
                   ret, latched, conlog, ncalls,
                   naddr, prev, written, reads, cmds>>

\* ------------------------------------------------------ execution loop
\* mutant of LoopCond: the halted indicator is not looked at
LoopCond_ignoresHalt(run, halt) == run # 0

\* mutant of LoopCond: the run flag is not looked at
LoopCond_ignoresRun(run, halt) == halt = 0

\* while (running && !cpu.halted)
LoopCond(run, halt) == run # 0 /\ halt = 0

\* one evaluation of the loop condition: a step begins, or the loop ends
LoopCheck ==
    /\ pc = "loop"
    /\ IF LoopCond(running, halted)
       THEN /\ pc' = "exec"
            /\ stdout' = stdout
       ELSE /\ pc' = "done"
            /\ stdout' = stdout \o MsgDone
    /\ UNCHANGED <<mem, fsdev, fsdev_ptr, fsdev_addr_lvl, running, halted,
                   stdin, stderr, ret, latched, conlog, ncalls,
                   naddr, prev, written, reads, cmds>>

\* Z80Execute() returns; the instruction may have been HALT
StepEnd(h) ==
    /\ pc = "exec"
    /\ halted' = h
    /\ pc' = "loop"
    /\ UNCHANGED <<mem, fsdev, fsdev_ptr, fsdev_addr_lvl, running,
                   stdin, stdout, stderr, ret, latched, conlog, ncalls,
                   naddr, prev, written, reads, cmds>>

\* a callback is invoked only from within Z80Execute()
InCallback ==
    /\ pc = "exec"
    /\ ncalls' = ncalls + 1
    /\ pc' = pc
    /\ cmds' = cmds
    /\ halted' = halted

\* ------------------------------------------------------------- io_read
\* The callbacks are those of the build without DEBUG: an accepted
\* data-port access prints nothing.
\* mutant of PortOf: the port number is used as it is given
PortOf_noMask(addr) == addr

\* addr &= 0xff
PortOf(addr) == BitAnd(addr, 255)

\* mutant of ConsoleRead: getchar() is kept in a char, so the byte 0xFF is
\* taken for the end of the input
ConsoleRead_charEof(in, run) ==
    LET c == IF in = <<>> THEN EOF ELSE Head(in)
    IN  [ val  |-> U8(c),
          run  |-> IF U8(c) = U8(EOF) THEN 0 ELSE run,
          rest |-> IF in = <<>> THEN in ELSE Tail(in) ]

\* mutant of ConsoleRead: the end of the input does not clear the run flag
ConsoleRead_keepsRunning(in, run) ==
    LET c == IF in = <<>> THEN EOF ELSE Head(in)
    IN  [ val  |-> U8(c),
          run  |-> run,
          rest |-> IF in = <<>> THEN in ELSE Tail(in) ]

\* port 0: getchar()
ConsoleRead(in, run) ==
    LET c == IF in = <<>> THEN EOF ELSE Head(in)
    IN  [ val  |-> U8(c),
          run  |-> IF c = EOF THEN 0 ELSE run,
          rest |-> IF in = <<>> THEN in ELSE Tail(in) ]

\* mutant of DataRead: the latch phase is not looked at
DataRead_noPhaseCheck(lvl, ptr, dev) ==
    IF ptr < MAX_FSDEV_SIZE
    THEN [ val |-> Peek(dev, ptr), diag |-> <<>> ]
    ELSE [ val |-> 0,
           diag |-> << <<"Out of bounds FSDEV read at %d\n", ptr>> >> ]

\* port 1: the byte at the cursor, and the diagnostics printed
DataRead(lvl, ptr, dev) ==
    IF lvl # 0
    THEN [ val |-> 0,
           diag |-> << <<"Reading FSDEV in the middle of an addr op (%d)\n", ptr>> >> ]
    ELSE IF ptr < MAX_FSDEV_SIZE
    THEN [ val |-> Peek(dev, ptr), diag |-> <<>> ]
    ELSE [ val |-> 0,
           diag |-> IF ptr >= MAX_FSDEV_SIZE
                    THEN << <<"Out of bounds FSDEV read at %d\n", ptr>> >>
                    ELSE <<>> ]

\* mutant of StatusRead: a cursor equal to the capacity reads as 2
StatusRead_atCapacity(lvl, ptr) ==
    IF lvl # 0 THEN 3
    ELSE IF ptr >= MAX_FSDEV_SIZE THEN 2
    ELSE 0

\* mutant of StatusRead: the branch that returns 2 is gone
StatusRead_noTwo(lvl, ptr) == IF lvl # 0 THEN 3 ELSE 0

\* port 2: the out-of-bounds indicator
StatusRead(lvl, ptr) ==
    IF lvl # 0 THEN 3
    ELSE IF ptr > MAX_FSDEV_SIZE THEN 2
    ELSE 0

\* mutant of io_read: an accepted data-port read advances the cursor
io_read_autoinc(addr) ==
    /\ InCallback
    /\ LET a == PortOf(addr) IN
       IF a = STDIO_PORT
       THEN LET r == ConsoleRead(stdin, running) IN
            /\ ret' = r.val
            /\ running' = r.run
            /\ stdin' = r.rest
            /\ UNCHANGED <<stderr, fsdev_ptr>>
       ELSE IF a = FS_DATA_PORT
       THEN LET r == DataRead(fsdev_addr_lvl, fsdev_ptr, fsdev) IN
            /\ ret' = r.val
            /\ stderr' = stderr \o r.diag
            /\ fsdev_ptr' = IF r.diag = <<>> THEN fsdev_ptr + 1 ELSE fsdev_ptr
            /\ UNCHANGED <<running, stdin>>
       ELSE IF a = FS_ADDR_PORT
       THEN /\ ret' = StatusRead(fsdev_addr_lvl, fsdev_ptr)
            /\ UNCHANGED <<running, stdin, stderr, fsdev_ptr>>
       ELSE /\ ret' = 0
            /\ stderr' = Append(stderr, <<"Out of bounds I/O read: %d\n", a>>)
            /\ UNCHANGED <<running, stdin, fsdev_ptr>>
    /\ reads' = IF PortOf(addr) = FS_DATA_PORT
                THEN Append(reads, <<naddr, ret'>>)
                ELSE reads
    /\ UNCHANGED <<mem, fsdev, fsdev_addr_lvl, stdout, latched, conlog,
                   naddr, prev, written>>

\* mutant of io_read: a status read abandons the address sequence under way
io_read_abortsLatch(addr) ==
    /\ InCallback
    /\ LET a == PortOf(addr) IN
       IF a = STDIO_PORT
       THEN LET r == ConsoleRead(stdin, running) IN
            /\ ret' = r.val
            /\ running' = r.run
            /\ stdin' = r.rest
            /\ UNCHANGED <<stderr, fsdev_addr_lvl>>
       ELSE IF a = FS_DATA_PORT
       THEN LET r == DataRead(fsdev_addr_lvl, fsdev_ptr, fsdev) IN
            /\ ret' = r.val
            /\ stderr' = stderr \o r.diag
            /\ UNCHANGED <<running, stdin, fsdev_addr_lvl>>
       ELSE IF a = FS_ADDR_PORT
       THEN /\ ret' = StatusRead(fsdev_addr_lvl, fsdev_ptr)
            /\ fsdev_addr_lvl' = 0
            /\ UNCHANGED <<running, stdin, stderr>>
       ELSE /\ ret' = 0
            /\ stderr' = Append(stderr, <<"Out of bounds I/O read: %d\n", a>>)
            /\ UNCHANGED <<running, stdin, fsdev_addr_lvl>>
    /\ reads' = IF PortOf(addr) = FS_DATA_PORT
                THEN Append(reads, <<naddr, ret'>>)
                ELSE reads
    /\ UNCHANGED <<mem, fsdev, fsdev_ptr, stdout, latched, conlog,
                   naddr, prev, written>>

io_read(addr) ==
    /\ InCallback
    /\ LET a == PortOf(addr) IN
       IF a = STDIO_PORT
       THEN LET r == ConsoleRead(stdin, running) IN
            /\ ret' = r.val
            /\ running' = r.run
            /\ stdin' = r.rest
            /\ stderr' = stderr
       ELSE IF a = FS_DATA_PORT
       THEN LET r == DataRead(fsdev_addr_lvl, fsdev_ptr, fsdev) IN
            /\ ret' = r.val
            /\ stderr' = stderr \o r.diag
            /\ UNCHANGED <<running, stdin>>
       ELSE IF a = FS_ADDR_PORT
       THEN /\ ret' = StatusRead(fsdev_addr_lvl, fsdev_ptr)
            /\ UNCHANGED <<running, stdin, stderr>>
       ELSE /\ ret' = 0
            /\ stderr' = Append(stderr, <<"Out of bounds I/O read: %d\n", a>>)
            /\ UNCHANGED <<running, stdin>>
    /\ reads' = IF PortOf(addr) = FS_DATA_PORT
                THEN Append(reads, <<naddr, ret'>>)
                ELSE reads
    /\ UNCHANGED <<mem, fsdev, fsdev_ptr, fsdev_addr_lvl, stdout, latched, conlog,
                   naddr, prev, written>>

\* ------------------------------------------------------------ io_write
\* mutant of ConsoleWrite: CTRL+D is echoed too
ConsoleWrite_echoEOT(run, out, val) ==
    [ run |-> IF val = EOT THEN 0 ELSE run, out |-> Append(out, val) ]

\* port 0: putchar(), or the end of the session on CTRL+D
ConsoleWrite(run, out, val) ==
    IF val = EOT
    THEN [ run |-> 0, out |-> out ]
    ELSE [ run |-> run, out |-> Append(out, val) ]

\* mutant of DataWrite: a cursor equal to the capacity is accepted
DataWrite_inclusive(lvl, ptr, dev, val) ==
    IF lvl # 0
    THEN [ dev |-> dev,
           diag |-> << <<"Writing to FSDEV in the middle of an addr op (%d)\n", ptr>> >> ]
    ELSE IF ptr <= MAX_FSDEV_SIZE
    THEN [ dev |-> Poke(dev, ptr, val), diag |-> <<>> ]
    ELSE [ dev |-> dev,
           diag |-> << <<"Out of bounds FSDEV write at %d\n", ptr>> >> ]

\* mutant of DataWrite: the byte is stored at the low 16 bits of the cursor
DataWrite_wrapped(lvl, ptr, dev, val) ==
    IF lvl # 0
    THEN [ dev |-> dev,
           diag |-> << <<"Writing to FSDEV in the middle of an addr op (%d)\n", ptr>> >> ]
    ELSE IF ptr < MAX_FSDEV_SIZE
    THEN [ dev |-> Poke(dev, ptr % 65536, val), diag |-> <<>> ]
    ELSE [ dev |-> dev,
           diag |-> << <<"Out of bounds FSDEV write at %d\n", ptr>> >> ]

\* port 1: the byte is stored at the cursor, or a diagnostic printed
DataWrite(lvl, ptr, dev, val) ==
    IF lvl # 0
    THEN [ dev |-> dev,
           diag |-> << <<"Writing to FSDEV in the middle of an addr op (%d)\n", ptr>> >> ]
    ELSE IF ptr < MAX_FSDEV_SIZE
    THEN [ dev |-> Poke(dev, ptr, val), diag |-> <<>> ]
    ELSE [ dev |-> dev,
           diag |-> << <<"Out of bounds FSDEV write at %d\n", ptr>> >> ]

\* mutant of LatchWrite: the first byte is or-ed into the old cursor
LatchWrite_keepsOld(lvl, ptr, val) ==
    IF lvl = 0 THEN [ ptr |-> BitOr(ptr, Shl(val, 16)), lvl |-> 1 ]
    ELSE IF lvl = 1 THEN [ ptr |-> BitOr(ptr, Shl(val, 8)), lvl |-> 2 ]
    ELSE [ ptr |-> BitOr(ptr, val), lvl |-> 0 ]

\* mutant of LatchWrite: the first byte is added to the old cursor
LatchWrite_accumulates(lvl, ptr, val) ==
    IF lvl = 0 THEN [ ptr |-> ptr + Shl(val, 16), lvl |-> 1 ]
    ELSE IF lvl = 1 THEN [ ptr |-> BitOr(ptr, Shl(val, 8)), lvl |-> 2 ]
    ELSE [ ptr |-> BitOr(ptr, val), lvl |-> 0 ]

\* port 2: one byte of the 24-bit address, most significant first
LatchWrite(lvl, ptr, val) ==
    IF lvl = 0 THEN [ ptr |-> Shl(val, 16), lvl |-> 1 ]
    ELSE IF lvl = 1 THEN [ ptr |-> BitOr(ptr, Shl(val, 8)), lvl |-> 2 ]
    ELSE [ ptr |-> BitOr(ptr, val), lvl |-> 0 ]

io_write(addr, val) ==
    /\ InCallback
    /\ LET a == PortOf(addr) IN
       IF a = STDIO_PORT
       THEN LET r == ConsoleWrite(running, stdout, val) IN
            /\ running' = r.run
            /\ stdout' = r.out
            /\ conlog' = Append(conlog, val)
            /\ UNCHANGED <<fsdev, fsdev_ptr, fsdev_addr_lvl, stderr, latched,
                           naddr, prev, written>>
       ELSE IF a = FS_DATA_PORT
       THEN LET r == DataWrite(fsdev_addr_lvl, fsdev_ptr, fsdev, val) IN
            /\ fsdev' = r.dev
            /\ stderr' = stderr \o r.diag
            /\ written' = IF r.diag = <<>>
                          THEN [o \in DOMAIN written \cup {fsdev_ptr} |->
                                  IF o = fsdev_ptr THEN val ELSE written[o]]
                          ELSE written
            /\ prev' = IF r.diag = <<>> THEN <<>> ELSE prev
            /\ UNCHANGED <<running, stdout, fsdev_ptr, fsdev_addr_lvl, latched,
                           conlog, naddr>>
       ELSE IF a = FS_ADDR_PORT
       THEN LET r == LatchWrite(fsdev_addr_lvl, fsdev_ptr, val) IN
            /\ fsdev_ptr' = r.ptr
            /\ fsdev_addr_lvl' = r.lvl
            /\ latched' = IF Len(latched) = 3 THEN <<val>> ELSE Append(latched, val)
            /\ naddr' = naddr + 1
            /\ prev' = IF Len(latched) = 2
                       THEN << [ bytes |-> Append(latched, val),
                                 ptr   |-> r.ptr,
                                 val   |-> DataRead(r.lvl, r.ptr, fsdev).val ] >>
                       ELSE prev
            /\ UNCHANGED <<running, stdout, fsdev, stderr, conlog, written>>
       ELSE /\ stderr' = Append(stderr, <<"Out of bounds I/O write: %d / %d (0x%x)\n", a, val, val>>)
            /\ UNCHANGED <<running, stdout, fsdev, fsdev_ptr, fsdev_addr_lvl, latched,
                           conlog, naddr, prev, written>>
    /\ UNCHANGED <<mem, stdin, ret, reads>>

\* ------------------------------------------------- mem_read, mem_write
mem_read(addr) ==
    /\ InCallback
    /\ ret' = Peek(mem, addr)
    /\ UNCHANGED <<mem, fsdev, fsdev_ptr, fsdev_addr_lvl, running, stdin,
                   stdout, stderr, latched, conlog, naddr, prev, written, reads>>

\* the diagnostics of a store at addr
RomDiag(addr) ==
    IF addr < RAMSTART THEN << <<"Writing to ROM (%d)!\n", addr>> >> ELSE <<>>

\* mutant of mem_write: a store below RAMSTART is diagnosed and dropped
mem_write_romProtected(addr, val) ==
    /\ InCallback
    /\ stderr' = stderr \o RomDiag(addr)
    /\ mem' = IF addr < RAMSTART THEN mem ELSE Poke(mem, addr, val)
    /\ UNCHANGED <<fsdev, fsdev_ptr, fsdev_addr_lvl, running, stdin, stdout,
                   ret, latched, conlog, naddr, prev, written, reads>>

mem_write(addr, val) ==
    /\ InCallback
    /\ stderr' = stderr \o RomDiag(addr)
    /\ mem' = Poke(mem, addr, val)
    /\ UNCHANGED <<fsdev, fsdev_ptr, fsdev_addr_lvl, running, stdin, stdout,
                   ret, latched, conlog, naddr, prev, written, reads>>

\* ----------------------------------------------------- specification
Next ==
    \/ FsBlank
    \/ \E img \in Images : FsLoad(img)
    \/ TermFail
    \/ \E kernel \in Kernels : Boot(kernel)
    \/ LoopCheck
    \/ \E h \in {0, 1} : StepEnd(h)
    \/ ncalls < MaxCalls /\ \E addr \in Ports : io_read(addr)
    \/ ncalls < MaxCalls /\ \E addr \in Ports, val \in ByteVals : io_write(addr, val)
    \/ ncalls < MaxCalls /\ \E addr \in MemAddrs : mem_read(addr)
    \/ ncalls < MaxCalls /\ \E addr \in MemAddrs, val \in ByteVals : mem_write(addr, val)

Spec == Init /\ [][Next]_vars

\* Z80Execute() returns, and the loop condition is evaluated after it: a CPU
\* step that is under way ends and a loop check that is due is made.
SpecFair ==
    /\ Spec
    /\ WF_vars(LoopCheck)
    /\ WF_vars(\E h \in {0, 1} : StepEnd(h))

\* Sessions in which the file system is loaded, the terminal is set up, the
\* standard input is empty and the guest uses the block-device ports only.
BusInit == Init /\ stdin = <<>>

BusNext ==
    \/ \E img \in Images : FsLoad(img)
    \/ \E kernel \in Kernels : Boot(kernel)
    \/ LoopCheck
    \/ \E h \in {0, 1} : StepEnd(h)
    \/ ncalls < MaxBusCalls /\ \E addr \in BusPorts : io_read(addr)
    \/ ncalls < MaxBusCalls /\ \E addr \in BusPorts, val \in ByteVals : io_write(addr, val)

SpecBus == BusInit /\ [][BusNext]_vars

\* Sessions on a small file system in which the guest breaks the protocol in
\* each way there is (invalid port, data access mid-latch and at or past
\* capacity, store into ROM), reads the console and writes CTRL+D to it.
StopReads == {STDIO_PORT, FS_DATA_PORT, 3}
StopWrites == { <<FS_ADDR_PORT, 0>>, <<FS_ADDR_PORT, 2>>, <<FS_DATA_PORT, 255>>,
                <<STDIO_PORT, EOT>>, <<3, 255>> }

StopInit == Init /\ Len(stdin) # 1

StopNext ==
    \/ \E img \in {i \in Images : i.len = 5} : FsLoad(img)
    \/ \E kernel \in Kernels : Boot(kernel)
    \/ LoopCheck
    \/ \E h \in {0, 1} : StepEnd(h)
    \/ ncalls < MaxStopCalls /\ \E addr \in StopReads : io_read(addr)
    \/ ncalls < MaxStopCalls /\ \E w \in StopWrites : io_write(w[1], w[2])
    \/ ncalls < MaxStopCalls /\ mem_write(RAMSTART - 1, 255)

SpecStop == StopInit /\ [][StopNext]_vars

\* Sessions in which the guest latches addresses below the capacity and
\* reads and writes the data port, often enough to latch an address twice.
LatchVals == {0, 1}

LatchNext ==
    \/ \E img \in Images : FsLoad(img)
    \/ \E kernel \in Kernels : Boot(kernel)
    \/ LoopCheck
    \/ \E h \in {0, 1} : StepEnd(h)
    \/ ncalls < MaxLatchCalls /\ \E val \in LatchVals : io_write(FS_ADDR_PORT, val)
    \/ ncalls < MaxLatchCalls /\ io_read(FS_DATA_PORT)
    \/ ncalls < MaxLatchCalls /\ io_write(FS_DATA_PORT, 255)

SpecLatch == BusInit /\ [][LatchNext]_vars

\* ------------------------------------------------------------- claims
DataPorts == {addr \in Ports : PortOf(addr) = FS_DATA_PORT}
AddrPorts == {addr \in Ports : PortOf(addr) = FS_ADDR_PORT}
ConsPorts == {addr \in Ports : PortOf(addr) = STDIO_PORT}

DataReadStep == \E addr \in DataPorts : io_read(addr)
DataWriteStep(val) == \E addr \in DataPorts : io_write(addr, val)
AddrReadStep == \E addr \in AddrPorts : io_read(addr)
AddrWriteStep == \E addr \in AddrPorts, val \in ByteVals : io_write(addr, val)
ConsReadStep == \E addr \in ConsPorts : io_read(addr)
ConsWriteStep(val) == \E addr \in ConsPorts : io_write(addr, val)

\* (hi<<16)|(mid<<8)|lo as a number
Cursor24(hi, mid, lo) == hi * 65536 + mid * 256 + lo

\* the cursor the bytes written so far in a sequence amount to
LatchedCursor(bytes) ==
    (IF Len(bytes) >= 1 THEN bytes[1] * 65536 ELSE 0)
    + (IF Len(bytes) >= 2 THEN bytes[2] * 256 ELSE 0)
    + (IF Len(bytes) >= 3 THEN bytes[3] ELSE 0)

\* C1: three address-port writes hi, mid, lo that start with the latch idle
\* leave the latch idle and the cursor at (hi<<16)|(mid<<8)|lo, whatever
\* the cursor was before (each write of the sequence leaves exactly the
\* bytes written so far in the cursor); a data-port read issued then
\* returns the block-device byte at that cursor when the cursor is below
\* capacity.
C1_LatchComplete ==
    /\ [](/\ Len(latched) % 3 = fsdev_addr_lvl
          /\ Len(latched) >= 1 => fsdev_ptr = LatchedCursor(latched)
          /\ Len(latched) = 3 =>
                fsdev_ptr = Cursor24(latched[1], latched[2], latched[3]))
    /\ [][(Len(latched) = 3 /\ DataReadStep
           /\ Cursor24(latched[1], latched[2], latched[3]) < MAX_FSDEV_SIZE)
          => ret' = Peek(fsdev, Cursor24(latched[1], latched[2], latched[3]))]_vars

\* C1 witness: after the sequence 0, 0, 1 the data port returned the byte
\* 0xAB that the image holds at offset 1
C1_Witness ==
    /\ latched = <<0, 0, 1>>
    /\ fsdev_addr_lvl = 0
    /\ fsdev_ptr = 1
    /\ ret = 171
    /\ ncalls = 4

\* C2: while the latch is not idle a data-port read returns 0 and a
\* data-port write is dropped, and neither changes the buffer, the cursor,
\* the latch phase, memory or the run flag.
C2_MidLatchRejected ==
    /\ [][(fsdev_addr_lvl # 0 /\ DataReadStep)
          => /\ ret' = 0
             /\ UNCHANGED <<fsdev, fsdev_ptr, fsdev_addr_lvl, mem, running>>]_vars
    /\ [][(fsdev_addr_lvl # 0 /\ \E val \in ByteVals : DataWriteStep(val))
          => UNCHANGED <<fsdev, fsdev_ptr, fsdev_addr_lvl, mem, running>>]_vars

\* C2 witness: with two address bytes received and the cursor below
\* capacity, a data-port write and a data-port read were both diagnosed
C2_Witness ==
    /\ fsdev_addr_lvl = 2
    /\ latched = <<0, 0>>
    /\ Peek(fsdev, 0) = 9
    /\ ret = 0
    /\ stderr = << <<"Writing to FSDEV in the middle of an addr op (%d)\n", 0>>,
                   <<"Reading FSDEV in the middle of an addr op (%d)\n", 0>> >>

C3_WitnessAtCapacity ==
    /\ fsdev_addr_lvl = 0
    /\ fsdev_ptr = MAX_FSDEV_SIZE
    /\ stderr = << <<"Out of bounds FSDEV write at %d\n", MAX_FSDEV_SIZE>> >>

C5_StatusTwoUnreachable ==
    /\ [](fsdev_addr_lvl = 0 => fsdev_ptr <= MAX_FSDEV_SIZE)
    /\ [][AddrReadStep => ret' # 2]_vars

\* C5 (amended): a completed cursor is any 24-bit value, so it can exceed
\* the capacity; an address-port read returns 2 exactly when the latch is
\* idle and the cursor is above capacity.
C5_StatusTwoReachable ==
    /\ [](fsdev_ptr >= 0 /\ fsdev_ptr < 16777216)
    /\ [][AddrReadStep
          => (ret' = 2 <=> (fsdev_addr_lvl = 0 /\ fsdev_ptr > MAX_FSDEV_SIZE))]_vars

\* C5 witness: after the sequence 2, 0, 1 the address port read 2
C5_Witness ==
    /\ latched = <<2, 0, 1>>
    /\ fsdev_ptr = MAX_FSDEV_SIZE + 1
    /\ fsdev_addr_lvl = 0
    /\ ret = 2

\* C6: an address-port read with the latch idle returns 1 when the cursor
\* equals the block-device size (0 only strictly within bounds, 2 above
\* the size, 3 when the address setting is incomplete).
C6_StatusOneAtCapacity ==
    [][AddrReadStep
       => ret' = IF fsdev_addr_lvl # 0 THEN 3
                 ELSE IF fsdev_ptr > MAX_FSDEV_SIZE THEN 2
                 ELSE IF fsdev_ptr = MAX_FSDEV_SIZE THEN 1
                 ELSE 0]_vars

\* what a data-port read returns in the current state
DataValue == DataRead(fsdev_addr_lvl, fsdev_ptr, fsdev).val

\* a callback other than an address-port write
OtherCallback ==
    \/ \E addr \in Ports : io_read(addr)
    \/ \E addr \in Ports \ AddrPorts, val \in ByteVals : io_write(addr, val)
    \/ \E addr \in MemAddrs : mem_read(addr)
    \/ \E addr \in MemAddrs, val \in ByteVals : mem_write(addr, val)

\* C7: the cursor is never auto-incremented: the cursor and the latch
\* phase change only in address-port writes; every other callback leaves
\* both as they were, so two data-port reads with no address-port or
\* data-port write between them return the same byte.
C7_NoAutoIncrement ==
    /\ [][<<fsdev_ptr, fsdev_addr_lvl>>' # <<fsdev_ptr, fsdev_addr_lvl>>
          => AddrWriteStep]_vars
    /\ [][OtherCallback => UNCHANGED <<fsdev_ptr, fsdev_addr_lvl>>]_vars
    /\ [][DataReadStep => ret' = DataValue]_vars
    /\ [][(pc = "exec" /\ DataValue' # DataValue)
          => (AddrWriteStep \/ \E val \in ByteVals : DataWriteStep(val))]_vars

\* C7 witness: the data port was read twice at cursor 0, where the image
\* holds 9, and the cursor is still 0
C7_Witness ==
    /\ ncalls = 2
    /\ ret = 9
    /\ fsdev_ptr = 0
    /\ fsdev_addr_lvl = 0
    /\ latched = <<>>
    /\ conlog = <<>>
    /\ stdin = <<65>>
    /\ stderr = <<>>
    /\ mem = (0 :> 243) @@ (2 :> 195)
    /\ Peek(fsdev, 0) = 9

NotEOT(b) == b # EOT

\* C8: a console-port write of 0x04 clears the run flag and appends
\* nothing to the output; a write of another byte appends that byte and
\* leaves the run flag as it was.  Hence the output the guest produced
\* (what follows the notice main() printed before the loop) is the
\* sequence of bytes other than 0x04 written to port 0, in order.
C8_ConsoleWrite ==
    /\ [][\A val \in ByteVals :
             ConsWriteStep(val)
             => IF val = 4
                THEN running' = 0 /\ stdout' = stdout
                ELSE running' = running /\ stdout' = Append(stdout, val)]_vars
    /\ [](pc \in {"loop", "exec"}
          => \E notice \in {MsgInit, MsgBlank} :
                stdout = notice \o SelectSeq(conlog, NotEOT))
    /\ [](pc = "done"
          => \E notice \in {MsgInit, MsgBlank} :
                stdout = notice \o SelectSeq(conlog, NotEOT) \o MsgDone)

\* C8 witness: the guest wrote 0x04 and then 0xFF in the same step
C8_Witness ==
    /\ conlog = <<4, 255>>
    /\ running = 0
    /\ pc = "exec"
    /\ stdout = MsgInit \o <<255>>

\* C9: a console-port read returns the next input byte and leaves the run
\* flag as it was while input is available; at the end of the input it
\* clears the run flag and returns the sentinel (uint8_t)EOF.  Memory, the
\* block-device buffer, the cursor and the latch phase are unchanged.
C9_ConsoleRead ==
    [][ConsReadStep
       => /\ stdin # <<>> =>
                /\ ret' = Head(stdin)
                /\ stdin' = Tail(stdin)
                /\ running' = running
          /\ stdin = <<>> =>
                /\ ret' = 255
                /\ running' = 0
                /\ stdin' = stdin
          /\ UNCHANGED <<mem, fsdev, fsdev_ptr, fsdev_addr_lvl>>]_vars

\* C9 witness: the input 65, 255 was read to its last byte, which was
\* returned with the run flag still set
C9_Witness ==
    /\ ret = 255
    /\ stdin = <<>>
    /\ running = 1
    /\ ncalls = 2

\* C9 witness of the end of the input: a read found the input empty
C9_WitnessEof ==
    /\ ret = 255
    /\ stdin = <<>>
    /\ running = 0
    /\ conlog = <<>>
    /\ ncalls = 1

\* C10: the loop is entered with the run flag set and the CPU not halted;
\* a CPU step begins only at a loop check that finds the run flag set and
\* the CPU not halted, and every such check begins one step, which
\* returns to the check; a check that finds the CPU halted or the run flag
\* cleared ends the loop; after that nothing more happens: no step and no
\* callback.
C10_Driver ==
    /\ [][(pc = "term" /\ pc' = "loop") => (running' = 1 /\ halted' = 0)]_vars
    /\ [][(pc # "exec" /\ pc' = "exec")
          => (pc = "loop" /\ running # 0 /\ halted = 0)]_vars
    /\ [][(pc = "loop" /\ running # 0 /\ halted = 0) => pc' = "exec"]_vars
    /\ [][(pc = "exec" /\ pc' # "exec") => pc' = "loop"]_vars
    /\ [][(pc = "loop" /\ ~(running # 0 /\ halted = 0)) => pc' = "done"]_vars
    /\ [][ncalls' # ncalls => (pc = "exec" /\ pc' = "exec")]_vars
    /\ [][pc # "done"]_vars

\* C10 witness: the loop ended on a halted CPU with the run flag set,
\* after steps that invoked callbacks
C10_Witness ==
    /\ pc = "done"
    /\ halted = 1
    /\ running = 1
    /\ ncalls = 2

\* C10 witness of the other way out: the loop ended on a cleared run flag
C10_WitnessStopped ==
    /\ pc = "done"
    /\ halted = 0
    /\ running = 0

\* a callback printed a diagnostic
Diagnosed == pc = "exec" /\ stderr' # stderr

\* C11: during execution the run flag changes only to 0, and only in a
\* console-port read that finds the input at its end or in a console-port
\* write of 0x04; a callback that prints a diagnostic (invalid port,
\* data access mid-latch or at or past capacity, store below the ROM
\* boundary) leaves it as it was; once it is 0 after start-up it stays 0.
C11_RunStateCleared ==
    /\ [][(pc \in {"loop", "exec", "done"} /\ running' # running)
          => /\ running' = 0
             /\ \/ ConsReadStep /\ stdin = <<>>
                \/ ConsWriteStep(EOT)]_vars
    /\ [][Diagnosed => running' = running]_vars
    /\ [][(pc \in {"loop", "exec", "done"} /\ running = 0) => running' = 0]_vars

\* C11 witness: with the cursor latched at the capacity a data-port read
\* was refused, which left the run flag set, and then 0x04 was written to
\* the console, which cleared it
C11_Witness ==
    /\ latched = <<2, 0, 0>>
    /\ stderr = << <<"Out of bounds FSDEV read at %d\n", MAX_FSDEV_SIZE>> >>
    /\ conlog = <<EOT>>
    /\ running = 0
    /\ ncalls = 5

\* C11 witness of the other way: an invalid port was written and a byte
\* stored into ROM, which left the run flag set, and then a console read
\* found the input at its end
C11_WitnessEof ==
    /\ stderr = << <<"Out of bounds I/O write: %d / %d (0x%x)\n", 3, 255, 255>>,
                   <<"Writing to ROM (%d)!\n", RAMSTART - 1>> >>
    /\ conlog = <<>>
    /\ ret = 255
    /\ running = 0
    /\ ncalls = 3

\* C11 witness of the mid-latch case: a data-port read was refused after
\* one address byte and the run flag is still set
C11_WitnessMidLatch ==
    /\ stderr = << <<"Reading FSDEV in the middle of an addr op (%d)\n", MAX_FSDEV_SIZE>> >>
    /\ fsdev_addr_lvl = 1
    /\ running = 1
    /\ ncalls = 2

\* C12: a memory write of v at a stores v at a, also below 0x4000, so that
\* a read of a returns v (a read returns the byte stored at its address
\* and changes no memory); the write prints a diagnostic exactly when
\* a < 0x4000; it changes no other memory byte, and not the block-device
\* buffer, the cursor, the latch phase or the run flag.
C12_MemoryRoundTrip ==
    /\ [][\A a \in MemAddrs, v \in ByteVals :
             mem_write(a, v)
             => /\ Peek(mem', a) = v
                /\ \A o \in (DOMAIN mem \cup DOMAIN mem') \ {a} :
                      Peek(mem', o) = Peek(mem, o)
                /\ (stderr' # stderr) <=> (a < 16384)
                /\ UNCHANGED <<fsdev, fsdev_ptr, fsdev_addr_lvl, running>>]_vars
    /\ [][\A a \in MemAddrs :
             mem_read(a) => (ret' = Peek(mem, a) /\ mem' = mem)]_vars

\* C12 witness: 0xFF was stored at 0x3FFF, the last ROM address, with a
\* diagnostic, and the read that followed returned it
C12_Witness ==
    /\ Peek(mem, 16383) = 255
    /\ stderr = << <<"Writing to ROM (%d)!\n", 16383>> >>
    /\ ret = 255
    /\ running = 1
    /\ stdin # <<>>
    /\ ncalls = 2

\* C12 witness above the boundary: a store at 0x4000 printed nothing
C12_WitnessRam ==
    /\ Peek(mem, 16384) = 4
    /\ stderr = <<>>
    /\ ret = 4
    /\ ncalls = 2

\* the low 8 bits of a port number
PortLow(p) == p % 256

\* the port numbers with a bit set above the low 8
HighPorts == {p \in Ports : p > 255}

\* C13: a read or a write on port p is the same step as the read or the
\* write on port p & 0xFF; on a port whose low byte is not 0, 1 or 2 a
\* read returns 0 and a write stores nothing, and memory, the block-device
\* buffer, the cursor, the latch phase, the run flag and the output stream
\* are unchanged.
C13_PortDecoding ==
    /\ [][\A p \in HighPorts : io_read(p) <=> io_read(PortLow(p))]_vars
    /\ [][\A p \in HighPorts, v \in ByteVals :
             io_write(p, v) <=> io_write(PortLow(p), v)]_vars
    /\ [][\A p \in Ports :
             (PortLow(p) \notin {0, 1, 2} /\ io_read(p))
             => /\ ret' = 0
                /\ UNCHANGED <<mem, fsdev, fsdev_ptr, fsdev_addr_lvl, running,
                               stdout, stdin>>]_vars
    /\ [][\A p \in Ports, v \in ByteVals :
             (PortLow(p) \notin {0, 1, 2} /\ io_write(p, v))
             => UNCHANGED <<mem, fsdev, fsdev_ptr, fsdev_addr_lvl, running,
                            stdout, stdin, ret>>]_vars

\* C13 witness: after a console read had returned 65, port 3 was read:
\* the read was diagnosed and returned 0, the input and the run flag are
\* as the console read left them
C13_Witness ==
    /\ stderr = << <<"Out of bounds I/O read: %d\n", 3>> >>
    /\ stdin = <<255>>
    /\ ret = 0
    /\ running = 1
    /\ ncalls = 2

\* C13 witness of the decoding: the status read that follows one address
\* byte returned 3, which a read of port 0x0102 does as a read of port 2
C13_WitnessHighBits ==
    /\ fsdev_addr_lvl = 1
    /\ fsdev_ptr = 65536
    /\ ret = 3
    /\ stderr = <<>>
    /\ ncalls = 2

\* C14: the latch phase changes only in a write to the address port, and
\* every such write moves it one place along idle -> 1 -> 2 -> idle, so
\* that the phase is always the number of address-port writes so far
\* modulo 3 and a sequence begun can only be completed; a data-port read
\* or write made in between is refused with a diagnostic and leaves the
\* phase and the buffer as they were.
C14_LatchCycle ==
    /\ [](fsdev_addr_lvl = naddr % 3)
    /\ [][fsdev_addr_lvl' # fsdev_addr_lvl => AddrWriteStep]_vars
    /\ [][AddrWriteStep
          => /\ fsdev_addr_lvl' = (fsdev_addr_lvl + 1) % 3
             /\ naddr' = naddr + 1]_vars
    /\ [][naddr' # naddr => AddrWriteStep]_vars
    /\ [][(fsdev_addr_lvl # 0
           /\ (DataReadStep \/ \E val \in ByteVals : DataWriteStep(val)))
          => /\ Len(stderr') = Len(stderr) + 1
             /\ UNCHANGED <<fsdev, fsdev_addr_lvl>>]_vars

\* C14 witness: between the first two address bytes a data-port read was
\* refused, after them a status read returned 3, and the latch still
\* waits for the third byte
C14_Witness ==
    /\ naddr = 2
    /\ fsdev_addr_lvl = 2
    /\ latched = <<1, 2>>
    /\ stderr = << <<"Reading FSDEV in the middle of an addr op (%d)\n", 65536>> >>
    /\ ret = 3
    /\ ncalls = 4

\* C14 witness of the wrap: a fourth address byte began a new sequence
C14_WitnessWrap ==
    /\ naddr = 4
    /\ fsdev_addr_lvl = 1
    /\ latched = <<2>>
    /\ fsdev_ptr = MAX_FSDEV_SIZE

\* C15: when an address sequence is completed with the same three bytes
\* as the sequence completed before it, and no data-port write was stored
\* in between, the cursor is the one the earlier sequence left and the
\* data port reads what it read then; every accepted data-port read made
\* after a sequence, until a data-port write is stored, returns that value.
C15_LatchIdempotent ==
    /\ [][(AddrWriteStep /\ Len(latched) = 2 /\ prev # <<>>
           /\ prev[1].bytes = latched')
          => /\ fsdev_ptr' = prev[1].ptr
             /\ fsdev_addr_lvl' = 0
             /\ DataRead(fsdev_addr_lvl', fsdev_ptr', fsdev').val = prev[1].val]_vars
    /\ [][(DataReadStep /\ fsdev_addr_lvl = 0 /\ prev # <<>>)
          => ret' = prev[1].val]_vars

\* C15 witness: the sequence 0, 0, 1 was issued, the data port read 0xAB,
\* the sequence was issued again and the data port read 0xAB again
C15_Witness ==
    /\ latched = <<0, 0, 1>>
    /\ naddr = 6
    /\ fsdev_ptr = 1
    /\ reads = << <<3, 171>>, <<6, 171>> >>
    /\ written = <<>>
    /\ ncalls = 8

\* loading img left its bytes at [0, img.len) of the buffer, zeros after
\* them, and main() going on to the terminal set-up
Loaded(img) ==
    /\ pc' = "term"
    /\ \A o \in DOMAIN img.data : Peek(fsdev', o) = img.data[o]
    /\ \A o \in DOMAIN fsdev' : o < img.len

\* C16: an image of any length n <= MAX_FSDEV_SIZE, n == MAX_FSDEV_SIZE
\* included, is loaded into bytes [0, n) of the block device, the other
\* bytes stay zero, and the session goes on towards CPU execution.
C16_ImageUpToCapacityLoads ==
    [][\A img \in Images :
          (img.len <= MAX_FSDEV_SIZE /\ FsLoad(img)) => Loaded(img)]_vars

\* what holds of C16: the images shorter than the block device are loaded
C16_ImageBelowCapacityLoads ==
    [][\A img \in Images :
          (img.len < MAX_FSDEV_SIZE /\ FsLoad(img)) => Loaded(img)]_vars

\* C17: nothing but the bytes the guest wrote to the console port is ever
\* on the standard output: no diagnostic of a protocol violation, no
\* notice of the bootstrap and no report of a failed set-up is added to it.
C17_OutputOnlyGuestBytes == stdout = SelectSeq(conlog, NotEOT)

\* what holds of C17: a callback that prints a diagnostic prints it on the
\* standard error and adds nothing to the standard output
C17_CallbackDiagnosticsOnStderr ==
    [][Diagnosed => stdout' = stdout]_vars

\* the directories main() handed to a tool
ToolDirs == {cmds[i].dir : i \in DOMAIN cmds}

\* C18: when the execution loop has ended, on a halted CPU or a cleared
\* run flag, the block device has been unpacked into the "cfsout"
\* directory.
C18_UnpackedOnHalt == pc = "done" => "cfsout" \in ToolDirs

\* the CPU halted or the run flag was cleared while the loop was running
StopRequested == pc \in {"loop", "exec"} /\ (halted = 1 \/ running = 0)

\* C19: the loop has ended only if the CPU halted or the run flag was
\* cleared; once either has happened no further step is begun, and, every
\* step in progress returning and every loop check being made, the loop
\* ends: at the check that follows the step in progress.
C19_Termination ==
    /\ [](pc = "done" => (halted = 1 \/ running = 0))
    /\ [][StopRequested => ~(pc = "loop" /\ pc' = "exec")]_vars
    /\ [][(StopRequested /\ pc = "loop") => pc' = "done"]_vars
    /\ StopRequested ~> (pc = "done")

\* C19 witness: the guest wrote 0x04 to the console, the step returned
\* without the CPU halting, and the loop ended
C19_Witness ==
    /\ pc = "done"
    /\ conlog = <<EOT>>
    /\ running = 0
    /\ halted = 0
    /\ stdin # <<>>

\* C19 witness of the end of the input: a console read found it and the
\* loop ended
C19_WitnessEof ==
    /\ pc = "done"
    /\ conlog = <<>>
    /\ stdin = <<>>
    /\ ret = 255
    /\ running = 0
    /\ halted = 0

\* a data-port write that is accepted: the latch idle, the cursor below
\* the capacity
StoredWrite(val) ==
    fsdev_addr_lvl = 0 /\ fsdev_ptr < MAX_FSDEV_SIZE /\ DataWriteStep(val)

\* C20: an accepted data-port write of v at the cursor c sets byte c of
\* the block device to v and changes no other byte, nor the cursor, the
\* latch phase, memory or the run flag; once the bootstrap has loaded the
\* device, its bytes change in no other step; so every byte stored keeps
\* its value until it is stored again, and an accepted data-port read at
\* a cursor that was written returns the value last stored there.
C20_DataWriteFrame ==
    /\ [][\A val \in ByteVals :
             StoredWrite(val)
             => /\ Peek(fsdev', fsdev_ptr) = val
                /\ \A o \in (DOMAIN fsdev \cup DOMAIN fsdev') \ {fsdev_ptr} :
                      Peek(fsdev', o) = Peek(fsdev, o)
                /\ UNCHANGED <<fsdev_ptr, fsdev_addr_lvl, mem, running>>]_vars
    /\ [][(pc # "fs" /\ fsdev' # fsdev)
          => \E val \in ByteVals : StoredWrite(val)]_vars
    /\ [](\A o \in DOMAIN written : Peek(fsdev, o) = written[o])
    /\ [][(DataReadStep /\ fsdev_addr_lvl = 0 /\ fsdev_ptr \in DOMAIN written)
          => ret' = written[fsdev_ptr]]_vars

\* C20 witness: 0xFF was stored at offset 0 over the byte 0x09 of the
\* image, two address sequences followed, the second one 0, 0, 0, and the
\* data port then read 0xFF
C20_Witness ==
    /\ written = (0 :> 255)
    /\ fsdev = (0 :> 255) @@ (MAX_FSDEV_SIZE - 2 :> 33)
    /\ latched = <<0, 0, 0>>
    /\ reads = << <<6, 255>> >>
    /\ ncalls = 8

====
